---- MODULE Spec2Model ----
(***************************************************************************)
(* Model of check-services.py: the Tor hidden service checker.             *)
(*                                                                         *)
(* Text is modelled as a sequence of tokens.  A token is a block of        *)
(* characters of the program's literals that no search of the program can  *)
(* split: "## " and "Tor Hidden Services Status" together spell the start  *)
(* marker, "\n", "---", "\n" spell the end marker, "http" is the prefix    *)
(* startswith() tests.  Every search and slice works on the tokens exactly *)
(* as the Python code works on characters (0-based indexes, -1 for "not    *)
(* found").                                                                *)
(*                                                                         *)
(* Three specifications share the variables:                               *)
(*   Spec        main(): load the CSV, probe each service, update README   *)
(*   SpliceSpec  update_readme() called twice on an arbitrary document     *)
(*   ProbeSpec   check_onion_service() on an arbitrary url and outcome     *)
(***************************************************************************)
EXTENDS Integers, Sequences, FiniteSets, Bags, TLC

VARIABLES
    pc,                \* position of the run
    csv_file,          \* services.csv: [exists, rows]
    services,          \* main's `services`
    idx,               \* number of services the for loop has handled
    online_services,   \* main's accumulator / update_readme's argument
    offline_services,  \* main's accumulator / update_readme's argument
    readme_file,       \* README.md: [exists, text]
    readme_initial,    \* README.md as it was when the run started
    readme_before,     \* README.md as it was when update_readme was last called
    status_content,    \* the section update_readme last rendered
    updates,           \* number of update_readme calls so far
    console,           \* what was printed, one token per print call
    url_arg,           \* url passed to the last check_onion_service call
    outcome,           \* what session.get did in the last call
    probed_url,        \* url the last call handed to session.get
    ret,               \* value the last call returned
    probes             \* one entry per check_onion_service call: [row, outcome]

vars == <<pc, csv_file, services, idx, online_services, offline_services,
          readme_file, readme_initial, readme_before, status_content, updates,
          console, url_arg, outcome, probed_url, ret, probes>>

-----------------------------------------------------------------------------
(* Bounds *)

MaxServices == 2   \* rows in services.csv
MaxUrl == 4        \* tokens of a probed url (ProbeSpec)
MaxChunks == 4     \* chunks a starting document is made of (SpliceSpec)
MaxList == 1       \* services given to update_readme, both lists together (SpliceSpec)

-----------------------------------------------------------------------------
(* Python string primitives on token sequences *)

\* s.startswith(p)
StartsWith(s, p) ==
    /\ Len(p) <= Len(s)
    /\ SubSeq(s, 1, Len(p)) = p

\* sub occurs in s at 0-based index i
MatchAt(s, sub, i) ==
    /\ i >= 0
    /\ i + Len(sub) <= Len(s)
    /\ SubSeq(s, i + 1, i + Len(sub)) = sub

\* s.find(sub, start): lowest index >= start where sub occurs, else -1
RECURSIVE Find(_, _, _)
Find(s, sub, start) ==
    IF start + Len(sub) > Len(s) THEN -1
    ELSE IF MatchAt(s, sub, start) THEN start
    ELSE Find(s, sub, start + 1)

\* sub in s
In(sub, s) == Find(s, sub, 0) /= -1

\* s[:i] and s[i:]
SliceTo(s, i) == SubSeq(s, 1, i)
SliceFrom(s, i) == SubSeq(s, i + 1, Len(s))

\* dict.get(key, default)
Get(d, key, default) == IF key \in DOMAIN d THEN d[key] ELSE default

RECURSIVE Concat(_)
Concat(ss) == IF ss = <<>> THEN <<>> ELSE Head(ss) \o Concat(Tail(ss))

-----------------------------------------------------------------------------
(* check_onion_service *)

NoException == "None"
Failures == {"Timeout", "ConnectionError", "ProxyError", "SSLError"}
StatusCodes == {100, 200, 404, 499, 500, 503}

\* what session.get can do: raise a transport failure or return a response
Outcomes ==
    {[exc |-> e, status_code |-> 0] : e \in Failures} \cup
    {[exc |-> NoException, status_code |-> c] : c \in StatusCodes}

\* the url starts with http:// or https://
HasRecognizedScheme(url) ==
    \/ StartsWith(url, <<"http", "://">>)
    \/ StartsWith(url, <<"http", "s", "://">>)

\* line 30: session.get(url).  requests sends nothing for a url without a
\* scheme it knows and raises MissingSchema or InvalidSchema; for any other
\* url the network decides.
SessionGet(url) ==
    IF HasRecognizedScheme(url)
    THEN Outcomes
    ELSE {[exc |-> "MissingSchema", status_code |-> 0],
          [exc |-> "InvalidSchema", status_code |-> 0]}

\* lines 27-28: the url handed to session.get
NormalizeUrl(url) ==
    IF ~StartsWith(url, <<"http">>) THEN <<"http", "://">> \o url ELSE url

\* a classification that counts 4xx as offline
check_onion_service_strict(url, o) ==
    LET u == NormalizeUrl(url) IN
    IF o.exc /= NoException
    THEN [ret |-> FALSE, raised |-> FALSE, probed |-> u, printed |-> <<o.exc>>]
    ELSE [ret |-> o.status_code < 400, raised |-> FALSE, probed |-> u,
          printed |-> <<>>]

\* a handler that logs the failure and raises it again
check_onion_service_reraise(url, o) ==
    LET u == NormalizeUrl(url) IN
    IF o.exc /= NoException
    THEN [ret |-> FALSE, raised |-> TRUE, probed |-> u, printed |-> <<o.exc>>]
    ELSE [ret |-> o.status_code < 500, raised |-> FALSE, probed |-> u,
          printed |-> <<>>]

\* lines 25-34.  raised: an exception leaves the function.
check_onion_service(url, o) ==
    LET u == NormalizeUrl(url) IN
    IF o.exc /= NoException
    THEN [ret |-> FALSE, raised |-> FALSE, probed |-> u,
          printed |-> <<o.exc>>]
    ELSE [ret |-> o.status_code < 500, raised |-> FALSE, probed |-> u,
          printed |-> <<>>]

-----------------------------------------------------------------------------
(* update_readme *)

start_marker == <<"## ", "Tor Hidden Services Status">>
end_marker == <<"\n", "---", "\n">>
DefaultReadme == <<"# Tor Hidden Services Monitor", "\n", "\n">>
\* line 54: what datetime.utcnow() formats to at the n-th call of a run: the
\* first call reads some second ts1, a later one the same second or a later one
Timestamps(n) == IF n = 0 THEN {"ts1"} ELSE {"ts1", "ts2"}

\* the backtick character of lines 72 and 85
BT == "(backtick)"

\* lines 66-75: one online service
OnlineItem(service) ==
    LET name == Get(service, "name", <<"Unknown">>)
        url == Get(service, "url", <<>>)
        desc == Get(service, "description", <<>>)
    IN  <<"- **">> \o name \o <<"**", "\n">>
        \o <<"  - URL: ", BT>> \o url \o <<BT, "\n">>
        \o (IF desc /= <<>> THEN <<"  - ">> \o desc \o <<"\n">> ELSE <<>>)
        \o <<"\n">>

\* lines 82-85: one offline service
OfflineItem(service) ==
    LET name == Get(service, "name", <<"Unknown">>)
        url == Get(service, "url", <<>>)
    IN  <<"- **">> \o name \o <<"** - ", BT>> \o url \o <<BT, "\n">>

\* lines 57-89: the rendered status section
Render(online, offline, timestamp) ==
    start_marker
    \o <<"\n", "\n", "*Last checked: ", timestamp, "*", "\n", "\n">>
    \o <<"### Online Services (", ToString(Len(online)), ")", "\n", "\n">>
    \o (IF online /= <<>>
        THEN Concat([k \in 1..Len(online) |-> OnlineItem(online[k])])
        ELSE <<"*No services are currently online.*", "\n", "\n">>)
    \o <<"### Offline Services (", ToString(Len(offline)), ")", "\n", "\n">>
    \o (IF offline /= <<>>
        THEN Concat([k \in 1..Len(offline) |-> OfflineItem(offline[k])])
        ELSE <<"*All services are online!*", "\n">>)
    \o end_marker

\* lines 92-96: the text update_readme starts from
ReadReadme(file) == IF file.exists THEN file.text ELSE DefaultReadme

\* a splice that never looks for an existing section
Splice_alwaysAppend(readme, content) ==
    readme \o <<"\n">> \o content

\* a splice that searches the end marker from the top of the document
Splice_endFromTop(readme, content) ==
    IF In(start_marker, readme)
    THEN LET start_idx == Find(readme, start_marker, 0)
             end_idx == Find(readme, end_marker, 0)
         IN  IF end_idx /= -1
             THEN SliceTo(readme, start_idx) \o content
                  \o SliceFrom(readme, end_idx + Len(end_marker))
             ELSE SliceTo(readme, start_idx) \o content
    ELSE readme \o <<"\n">> \o content

\* a splice that appends without the separating newline
Splice_noNewline(readme, content) ==
    IF In(start_marker, readme)
    THEN LET start_idx == Find(readme, start_marker, 0)
             end_idx == Find(readme, end_marker, start_idx)
         IN  IF end_idx /= -1
             THEN SliceTo(readme, start_idx) \o content
                  \o SliceFrom(readme, end_idx + Len(end_marker))
             ELSE SliceTo(readme, start_idx) \o content
    ELSE readme \o content

\* a splice that keeps what follows an unterminated section
Splice_keepTail(readme, content) ==
    IF In(start_marker, readme)
    THEN LET start_idx == Find(readme, start_marker, 0)
             end_idx == Find(readme, end_marker, start_idx)
         IN  IF end_idx /= -1
             THEN SliceTo(readme, start_idx) \o content
                  \o SliceFrom(readme, end_idx + Len(end_marker))
             ELSE SliceTo(readme, start_idx) \o content
                  \o SliceFrom(readme, start_idx + Len(start_marker))
    ELSE readme \o <<"\n">> \o content

\* lines 102-114: replace or append the status section
Splice(readme, content) ==
    IF In(start_marker, readme)
    THEN LET start_idx == Find(readme, start_marker, 0)
             end_idx == Find(readme, end_marker, start_idx)
         IN  IF end_idx /= -1
             THEN SliceTo(readme, start_idx) \o content
                  \o SliceFrom(readme, end_idx + Len(end_marker))
             ELSE SliceTo(readme, start_idx) \o content
    ELSE readme \o <<"\n">> \o content

\* lines 48-118: the whole of update_readme, as an effect on the variables
update_readme(online, offline, timestamp) ==
    LET content == Render(online, offline, timestamp) IN
    /\ status_content' = content
    /\ readme_before' = readme_file
    /\ readme_file' = [exists |-> TRUE,
                       text |-> Splice(ReadReadme(readme_file), content)]
    /\ updates' = updates + 1

-----------------------------------------------------------------------------
(* Inputs *)

\* all sequences over S of length at most n
RECURSIVE SeqsUpTo(_, _)
SeqsUpTo(S, n) ==
    IF n = 0 THEN {<<>>}
    ELSE LET shorter == SeqsUpTo(S, n - 1)
         IN  shorter \cup {Append(s, x) : s \in shorter, x \in S}

\* rows csv.DictReader can yield: one dict per line, keyed by the header
ServiceRows ==
    { [name |-> <<"Alpha">>, url |-> <<"alpha.onion">>,
       description |-> <<"first">>],
      [name |-> <<"Beta">>, url |-> <<"http", "://", "beta.onion">>,
       description |-> <<>>],
      [name |-> <<"Gamma">>, url |-> <<"http", "s", "://", "gamma.onion">>] }

\* services.csv: absent, or rows that all have the header's columns
CsvFiles ==
    {[exists |-> FALSE, rows |-> <<>>]} \cup
    {[exists |-> TRUE, rows |-> rows] :
        rows \in {r \in SeqsUpTo(ServiceRows, MaxServices) :
                    \A a, b \in 1..Len(r) : DOMAIN r[a] = DOMAIN r[b]}}

Missing == [exists |-> FALSE, text |-> <<>>]
File(text) == [exists |-> TRUE, text |-> text]

\* README.md at the start of a run of main
MainReadmes ==
    { Missing,
      File(<<"# Title", "\n">>),
      File(<<"# Title", "\n">> \o start_marker \o <<"old">> \o end_marker
           \o <<"footer", "\n">>) }

NoOutcome == [exc |-> NoException, status_code |-> 0]

-----------------------------------------------------------------------------
(* main *)

Init ==
    /\ pc = "start"
    /\ csv_file \in CsvFiles
    /\ readme_file \in MainReadmes
    /\ readme_initial = readme_file
    /\ readme_before = readme_file
    /\ services = <<>>
    /\ idx = 0
    /\ online_services = <<>>
    /\ offline_services = <<>>
    /\ status_content = <<>>
    /\ updates = 0
    /\ console = <<>>
    /\ url_arg = <<>>
    /\ outcome = NoOutcome
    /\ probed_url = <<>>
    /\ ret = FALSE
    /\ probes = <<>>

\* a loader that treats an absent file as an empty one
read_services_csv_lenient(file) ==
    [raised |-> FALSE, services |-> file.rows]

\* lines 36-46: the rows of the file, in file order; raises when it is absent
read_services_csv(file) ==
    IF file.exists
    THEN [raised |-> FALSE, services |-> file.rows]
    ELSE [raised |-> TRUE, services |-> <<>>]

\* lines 121-132
ReadServices ==
    /\ pc = "start"
    /\ LET r == read_services_csv(csv_file) IN
       IF r.raised
       THEN /\ console' = console \o <<"Starting", "services.csv not found!">>
            /\ pc' = "aborted"
            /\ UNCHANGED services
       ELSE /\ console' = console \o <<"Starting", "Found services">>
            /\ services' = r.services
            /\ pc' = "loop"
    /\ UNCHANGED <<csv_file, idx, online_services, offline_services,
                   readme_file, readme_initial, readme_before, status_content,
                   updates, url_arg, outcome, probed_url, ret, probes>>

\* a list.append that inserts at the front instead
OnlineAfterPrepend(online, service, reachable) ==
    IF reachable THEN <<service>> \o online ELSE online

\* lines 140-142: online_services after one iteration
OnlineAfter(online, service, reachable) ==
    IF reachable THEN Append(online, service) ELSE online

\* an else branch that is not an else: every service is recorded offline
OfflineAfterAlways(offline, service, reachable) ==
    Append(offline, service)

\* lines 143-145: offline_services after one iteration
OfflineAfter(offline, service, reachable) ==
    IF reachable THEN offline ELSE Append(offline, service)

\* lines 135-145: one iteration of the for loop
CheckService ==
    /\ pc = "loop"
    /\ idx < Len(services)
    /\ \E o \in SessionGet(NormalizeUrl(Get(services[idx + 1], "url", <<>>))) :
        LET service == services[idx + 1]
            url == Get(service, "url", <<>>)
            r == check_onion_service(url, o)
        IN  /\ url_arg' = url
            /\ outcome' = o
            /\ probed_url' = r.probed
            /\ probes' = Append(probes, [row |-> idx + 1, outcome |-> o])
            /\ IF r.raised
               THEN /\ pc' = "crashed"
                    /\ console' = console \o <<"Checking">> \o r.printed
                    /\ UNCHANGED <<ret, idx, online_services, offline_services>>
               ELSE /\ ret' = r.ret
                    /\ idx' = idx + 1
                    /\ pc' = "loop"
                    /\ console' = console \o <<"Checking">> \o r.printed
                                  \o <<IF r.ret THEN "Online" ELSE "Offline">>
                    /\ online_services' =
                           OnlineAfter(online_services, service, r.ret)
                    /\ offline_services' =
                           OfflineAfter(offline_services, service, r.ret)
    /\ UNCHANGED <<csv_file, services, readme_file, readme_initial,
                   readme_before, status_content, updates>>

\* lines 147-150: the loop is over
UpdateReadme ==
    /\ pc = "loop"
    /\ idx = Len(services)
    /\ \E ts \in Timestamps(updates) :
        update_readme(online_services, offline_services, ts)
    /\ console' = console \o <<"Updating README", "Done">>
    /\ pc' = "done"
    /\ UNCHANGED <<csv_file, services, idx, online_services, offline_services,
                   readme_initial, url_arg, outcome, probed_url, ret, probes>>

Next == ReadServices \/ CheckService \/ UpdateReadme

Spec == Init /\ [][Next]_vars

-----------------------------------------------------------------------------
(* Properties of main *)

Range(s) == {s[k] : k \in 1..Len(s)}

\* the bag of the elements of s
SeqToBag(s) == [x \in Range(s) |-> Cardinality({k \in 1..Len(s) : s[k] = x})]

\* a is b with some elements left out
RECURSIVE IsSubseq(_, _)
IsSubseq(a, b) ==
    IF a = <<>> THEN TRUE
    ELSE IF b = <<>> THEN FALSE
    ELSE IF Head(a) = Head(b) THEN IsSubseq(Tail(a), Tail(b))
    ELSE IsSubseq(a, Tail(b))

\* the elements of s at the indexes in K, in order
RECURSIVE Restrict(_, _, _)
Restrict(s, K, from) ==
    IF from > Len(s) THEN <<>>
    ELSE (IF from \in K THEN <<s[from]>> ELSE <<>>) \o Restrict(s, K, from + 1)

LoopFinished == pc = "done" \/ (pc = "loop" /\ idx = Len(services))

\* C4: when the probing loop has finished, |online| + |offline| = |services|
\* and the online and offline lists together hold every loaded row exactly as
\* often as the input does (as bags: online (+) offline = services).
C4_Partition ==
    LoopFinished =>
        /\ Len(online_services) + Len(offline_services) = Len(services)
        /\ SeqToBag(online_services) (+) SeqToBag(offline_services)
               = SeqToBag(services)

\* a finished loop over two identical rows, one online and one offline
C4_Witness ==
    /\ LoopFinished
    /\ Len(services) = 2
    /\ services[1] = services[2]
    /\ Len(online_services) = 1
    /\ Len(offline_services) = 1

\* C5: the online list and the offline list handed to update_readme are each
\* a subsequence of the loaded services: input order is kept in each list.
C5_InputOrder ==
    pc = "done" =>
        /\ IsSubseq(online_services, services)
        /\ IsSubseq(offline_services, services)

\* update_readme was handed two different services in one list
C5_Witness ==
    /\ pc = "done"
    /\ \/ Len(online_services) = 2 /\ online_services[1] /= online_services[2]
       \/ Len(offline_services) = 2 /\ offline_services[1] /= offline_services[2]

FailedRows == {k \in 1..Len(probes) : probes[k].outcome.exc /= NoException}

\* C6: a transport failure never leaves check_onion_service and never stops
\* the run: the run is never in a crashed state, it can always take its next
\* step until it has terminated, and when it is done every service was probed
\* once in input order, the services whose probe failed are in the offline
\* list, and the README holds the section of the one update that was made.
C6_FailureNeverAborts ==
    /\ pc /= "crashed"
    /\ pc \in {"start", "loop"} => ENABLED Next
    /\ pc = "done" =>
        /\ Len(probes) = Len(services)
        /\ \A k \in 1..Len(probes) : probes[k].row = k
        /\ IsSubseq(Restrict(services, FailedRows, 1), offline_services)
        /\ Len(offline_services) >= Cardinality(FailedRows)
        /\ updates = 1
        /\ readme_file.exists
        /\ In(status_content, readme_file.text)

\* a finished run whose first of two probes failed at the transport level
C6_Witness ==
    /\ pc = "done"
    /\ Len(services) = 2
    /\ 1 \in FailedRows
    /\ updates = 1

\* C7: with services.csv missing the run can only be at its start or aborted:
\* nothing is probed, update_readme is never called, README.md is as it was
\* (absent if it was absent), and once aborted the user has been told.
C7_MissingInputAborts ==
    ~csv_file.exists =>
        /\ pc \in {"start", "aborted"}
        /\ probes = <<>>
        /\ updates = 0
        /\ readme_file = readme_initial
        /\ pc = "aborted" => "services.csv not found!" \in Range(console)

\* the run aborted on a missing services.csv
C7_Witness ==
    /\ pc = "aborted"
    /\ ~csv_file.exists
    /\ "services.csv not found!" \in Range(console)

-----------------------------------------------------------------------------
(* check_onion_service on its own *)

UrlTokens == {"http", "s", "://", "example.onion"}
Urls == SeqsUpTo(UrlTokens, MaxUrl)

ProbeInit ==
    /\ pc = "call"
    /\ url_arg \in Urls
    /\ csv_file = [exists |-> FALSE, rows |-> <<>>]
    /\ readme_file = Missing
    /\ readme_initial = Missing
    /\ readme_before = Missing
    /\ services = <<>>
    /\ idx = 0
    /\ online_services = <<>>
    /\ offline_services = <<>>
    /\ status_content = <<>>
    /\ updates = 0
    /\ console = <<>>
    /\ outcome = NoOutcome
    /\ probed_url = <<>>
    /\ ret = FALSE
    /\ probes = <<>>

\* lines 14-34: one call, with whatever session.get does
CallCheckOnionService ==
    /\ pc = "call"
    /\ \E o \in SessionGet(NormalizeUrl(url_arg)) :
        LET r == check_onion_service(url_arg, o) IN
        /\ outcome' = o
        /\ probed_url' = r.probed
        /\ ret' = r.ret
        /\ console' = console \o r.printed
        /\ pc' = IF r.raised THEN "crashed" ELSE "returned"
    /\ UNCHANGED <<csv_file, services, idx, online_services, offline_services,
                   readme_file, readme_initial, readme_before, status_content,
                   updates, url_arg, probes>>

ProbeNext == CallCheckOnionService

ProbeSpec == ProbeInit /\ [][ProbeNext]_vars

\* C8: a call that ends on a transport failure returns false; one that gets a
\* response with status 100..499 returns true; one that gets a response with
\* status 500 or above returns false.  No call ends any other way.
C8_Classification ==
    /\ pc \in {"call", "returned"}
    /\ pc = "returned" =>
        /\ outcome.exc /= NoException => ret = FALSE
        /\ (outcome.exc = NoException /\ outcome.status_code >= 100
               /\ outcome.status_code <= 499) => ret = TRUE
        /\ (outcome.exc = NoException /\ outcome.status_code >= 500)
               => ret = FALSE

\* a 4xx response was classified online
C8_Witness ==
    /\ pc = "returned"
    /\ outcome.exc = NoException
    /\ outcome.status_code = 404
    /\ ret = TRUE

\* C9: the probed url is the input unchanged when the input starts with
\* http:// or https://, and "http://" followed by the input otherwise.
C9_UrlNormalization ==
    pc = "returned" =>
        probed_url = IF HasRecognizedScheme(url_arg)
                     THEN url_arg
                     ELSE <<"http", "://">> \o url_arg

-----------------------------------------------------------------------------
(* update_readme on its own, called twice in succession with the same lists *)

\* the pieces a starting document is put together from: the two markers, the
\* first token of the start marker, a newline, and a rule without its newlines
Chunks == {start_marker, end_marker, <<"## ">>, <<"\n">>, <<"---">>}

Docs == {Concat(cs) : cs \in SeqsUpTo(Chunks, MaxChunks)}

\* services whose fields hold plain text, the start marker, or text that
\* completes an end marker
SpliceRows ==
    { [name |-> <<"Alpha">>, url |-> <<"alpha.onion">>,
       description |-> <<"first">>],
      [name |-> start_marker, url |-> <<"beta.onion">>,
       description |-> <<>>],
      [name |-> <<"Gamma">>, url |-> <<"gamma.onion">>,
       description |-> <<"\n", "---">>] }

SpliceInit ==
    /\ pc = "splice"
    /\ readme_file \in {Missing} \cup {File(d) : d \in Docs}
    /\ readme_initial = readme_file
    /\ readme_before = readme_file
    /\ online_services \in SeqsUpTo(SpliceRows, MaxList)
    /\ offline_services \in SeqsUpTo(SpliceRows, MaxList)
    /\ Len(online_services) + Len(offline_services) <= MaxList
    /\ csv_file = [exists |-> FALSE, rows |-> <<>>]
    /\ services = <<>>
    /\ idx = 0
    /\ status_content = <<>>
    /\ updates = 0
    /\ console = <<>>
    /\ url_arg = <<>>
    /\ outcome = NoOutcome
    /\ probed_url = <<>>
    /\ ret = FALSE
    /\ probes = <<>>

\* lines 48-118: one call of update_readme, the first or the second
CallUpdateReadme ==
    /\ pc \in {"splice", "spliced once"}
    /\ \E ts \in Timestamps(updates) :
        update_readme(online_services, offline_services, ts)
    /\ pc' = IF pc = "splice" THEN "spliced once" ELSE "spliced twice"
    /\ UNCHANGED <<csv_file, services, idx, online_services, offline_services,
                   readme_initial, console, url_arg, outcome, probed_url, ret,
                   probes>>

SpliceNext == CallUpdateReadme

SpliceSpec == SpliceInit /\ [][SpliceNext]_vars

\* sub occurs in s at some index >= from
Occurs(s, sub, from) == \E i \in from..Len(s) : MatchAt(s, sub, i)

\* the least index >= from where sub occurs in s
FirstAt(s, sub, from) ==
    CHOOSE i \in from..Len(s) :
        /\ MatchAt(s, sub, i)
        /\ \A j \in from..(i - 1) : ~MatchAt(s, sub, j)

\* number of occurrences of sub in s
Count(s, sub) == Cardinality({i \in 0..Len(s) : MatchAt(s, sub, i)})

\* the text update_readme read in its last call, and the text it wrote
OldText == ReadReadme(readme_before)
NewText == readme_file.text

\* the last n tokens of s
Last(s, n) == SubSeq(s, Len(s) - n + 1, Len(s))

\* C2: after an update of a document that has an end marker at or after its
\* first start marker, the text before that start marker and the text after
\* the first such end marker are what they were, and the rendered section is
\* all there is between them.
C2_OnlySpanReplaced ==
    (updates >= 1 /\ Occurs(OldText, start_marker, 0)
       /\ Occurs(OldText, end_marker, FirstAt(OldText, start_marker, 0))) =>
        LET s == FirstAt(OldText, start_marker, 0)
            e == FirstAt(OldText, end_marker, s) + Len(end_marker)
            after == Len(OldText) - e
        IN  /\ SliceTo(NewText, s) = SliceTo(OldText, s)
            /\ Last(NewText, after) = Last(OldText, after)
            /\ Len(NewText) = s + Len(status_content) + after
            /\ MatchAt(NewText, status_content, s)

\* a section with text before it, text after it, and an end marker above it
C2_Witness ==
    /\ updates = 1
    /\ Occurs(OldText, start_marker, 0)
    /\ Occurs(OldText, end_marker, FirstAt(OldText, start_marker, 0))
    /\ FirstAt(OldText, start_marker, 0) > 0
    /\ FirstAt(OldText, end_marker, FirstAt(OldText, start_marker, 0))
           + Len(end_marker) < Len(OldText)

\* C10: after an update of a document that has a start marker and no end
\* marker at or after the first one, the document is the text before that
\* start marker followed by the rendered section and nothing else.
C10_UnterminatedSection ==
    (updates >= 1 /\ Occurs(OldText, start_marker, 0)
       /\ ~Occurs(OldText, end_marker, FirstAt(OldText, start_marker, 0))) =>
        NewText = SliceTo(OldText, FirstAt(OldText, start_marker, 0))
                  \o status_content

\* an unterminated section with text before it and text after its heading
C10_Witness ==
    /\ updates = 1
    /\ Occurs(OldText, start_marker, 0)
    /\ ~Occurs(OldText, end_marker, FirstAt(OldText, start_marker, 0))
    /\ FirstAt(OldText, start_marker, 0) > 0
    /\ FirstAt(OldText, start_marker, 0) + Len(start_marker) < Len(OldText)
    /\ NewText = SliceTo(OldText, FirstAt(OldText, start_marker, 0))
                 \o status_content

\* number of blank lines directly above 0-based index p of text
RECURSIVE NewlinesBefore(_, _)
NewlinesBefore(text, p) ==
    IF p > 0 /\ text[p] = "\n" THEN 1 + NewlinesBefore(text, p - 1) ELSE 0

BlankLinesBefore(text, p) ==
    LET k == NewlinesBefore(text, p) IN
    IF k = p THEN k              \* the newlines reach the top of the text
    ELSE IF k = 0 THEN 0
    ELSE k - 1                   \* the first newline ends a line of text

\* where the section starts when it is the end of the new text
SectionStart == Len(NewText) - Len(status_content)

EndsWithOneNewline(text) ==
    \/ text = <<>>
    \/ /\ Len(text) >= 2
       /\ text[Len(text)] = "\n"
       /\ text[Len(text) - 1] /= "\n"

C1_OneSectionAfterTwoRuns ==
    updates >= 2 => Count(NewText, start_marker) = 1

\* the fields update_readme renders of the services it is given
RenderedFields ==
    UNION { {Get(r, "name", <<"Unknown">>), Get(r, "url", <<>>),
             Get(r, "description", <<>>)} :
            r \in Range(online_services) \cup Range(offline_services) }

\* the starting document has at most one start marker and no rendered field
\* of a service contains one
CleanInputs ==
    /\ Count(ReadReadme(readme_initial), start_marker) <= 1
    /\ \A f \in RenderedFields : ~Occurs(f, start_marker, 0)

\* C1 amended: when the starting document has at most one start marker and no
\* name, url or description given contains it, the document has exactly one
\* start marker after the first run and after the second run with the same
\* lists; that marker heads the section the latest run rendered, and after
\* the second run it is where the first run's was.
C1_OneSectionCleanInputs ==
    (updates >= 1 /\ CleanInputs) =>
        /\ Count(NewText, start_marker) = 1
        /\ MatchAt(NewText, status_content, FirstAt(NewText, start_marker, 0))
        /\ updates >= 2 =>
               FirstAt(NewText, start_marker, 0)
                   = FirstAt(OldText, start_marker, 0)

\* a second run that replaced the section the first run appended
C1_Witness ==
    /\ updates = 2
    /\ CleanInputs
    /\ ~Occurs(ReadReadme(readme_initial), start_marker, 0)
    /\ Len(online_services) + Len(offline_services) >= 1
    /\ Count(NewText, start_marker) = 1

====
